---- MODULE Spec2Model ----
(***************************************************************************)
(* Particle Field Engine of xingyun: the per-frame blend state machine of  *)
(* NebulaScene (animate), the hand-gesture classifier of GestureHandler    *)
(* (predictWebcam) with the handler's life cycle (model load, camera,      *)
(* gesture button), the image-to-particle sampler (processImage) and the   *)
(* image loads of App with the particle buffer of the scene.               *)
(*                                                                         *)
(* Numbers.  The source computes in IEEE doubles.  The model uses scaled   *)
(* integers:                                                               *)
(*   - blend factors are floating-point numbers of MantissaBits bits of    *)
(*     precision, kept as multiples of 2^-ExpBits (the smallest positive   *)
(*     number); the result of the smoothing step is rounded to the nearest *)
(*     such number, ties to even, with gradual underflow, as IEEE          *)
(*     arithmetic does with 53 bits;                                       *)
(*   - landmark coordinates are multiples of 1/100 of the normalized       *)
(*     image; distances are compared by their squares (sqrt is monotone);  *)
(*   - brightness is kept as 1000*brightness (299R + 587G + 114B), exact.  *)
(***************************************************************************)
EXTENDS Integers, Sequences, FiniteSets, TLC

VARIABLES
    \* NebulaScene refs (src/NebulaScene.tsx 305-309)
    currentExplosion, targetExplosion, currentBlackHole, targetBlackHole,
    \* App.handDataRef (src/types.ts 73-80)
    handData,
    \* GestureHandler refs: handLandmarkerRef, lastVideoTimeRef; the video's currentTime
    handLandmarker, lastVideoTime, videoTime,
    \* App.gestureEnabled; GestureHandler's isLoaded and error; whether the
    \* browser has navigator.mediaDevices.getUserMedia
    enabled, isLoaded, error, supported,
    \* the init() calls and getUserMedia calls that have not settled yet, and
    \* the number of times the handler was enabled (capped)
    initPending, camPending, enables,
    \* videoRef.current, its srcObject (0 or the number of a stream), the number
    \* of loadeddata listeners on it and whether a loadeddata event is due
    video, srcObject, listening, loadedDue,
    \* the number of predictWebcam animation frame callbacks outstanding, and
    \* whether the one requestRef names is among them
    requested, refPending,
    \* the camera streams obtained so far: the state of each one's track
    streams,
    \* history: detectForVideo calls made on the current video frame (capped)
    inferences,
    \* the result of the last detectForVideo call (history, for the classifier claims)
    results,
    \* history of the frame loop: number of animate frames run (capped), its
    \* parity, and whether every frame saw an active closed-fist signal
    frames, parity, sustainedFist,
    \* history: the number of frames in a row, up to the last one, on which
    \* animate read an active signal (capped)
    activeFrames,
    \* sampler: the decoded image, the settings and the last ProcessedData
    img, settings, processed,
    \* App: data and isProcessing (src/types.ts 66-67) and the image loads
    \* requested so far, each with its source, its stage and (history) the
    \* data displayed when it was requested
    data, isProcessing, loads,
    \* the loads whose 50 ms timer is set, in the order the timers were set:
    \* timers of the same delay run in that order
    timers,
    \* NebulaScene: whether its cleanup has run, the buffer of pointsRef.current
    \* and (history) the operations of the last run of the data effect, in order
    scene, points, effectLog

vars == <<currentExplosion, targetExplosion, currentBlackHole, targetBlackHole,
          handData, handLandmarker, lastVideoTime, videoTime,
          enabled, isLoaded, error, supported, initPending, camPending,
          enables, video, srcObject, listening, loadedDue, requested,
          refPending, streams, inferences,
          results, frames, parity, sustainedFist, activeFrames,
          img, settings, processed,
          data, isProcessing, loads, timers, scene, points, effectLog>>

fieldVars == <<currentExplosion, targetExplosion, currentBlackHole, targetBlackHole,
               frames, parity, sustainedFist, activeFrames>>
classifierVars == <<handData, lastVideoTime, results>>
cameraVars == <<enabled, isLoaded, error, supported, initPending, camPending,
                enables, video, srcObject, listening, loadedDue, requested,
                refPending, streams>>
gestureVars == <<classifierVars, cameraVars, handLandmarker, videoTime, inferences>>
samplerVars == <<img, settings, processed>>
appVars == <<data, isProcessing, loads, timers, scene, points, effectLog>>

----------------------------------------------------------------------------
(* Bounds of the model *)

\* blend factors have MantissaBits significant bits and are multiples of
\* 2^-ExpBits; Scale is the number 1.0
MantissaBits == 6
ExpBits == 15
Scale == 2 ^ ExpBits
\* the video's currentTime takes the values 0..MaxVideoTime
MaxVideoTime == 1
\* the frame counter stops counting at MaxFrames
MaxFrames == 14
\* the gesture handler is enabled at most MaxEnables times (the first time by
\* App's initial state)
MaxEnables == 2
\* at most MaxLoads image loads are requested (the first one by App's mount)
MaxLoads == 2

Min(a, b) == IF a < b THEN a ELSE b
Max(a, b) == IF a > b THEN a ELSE b

\* n / d rounded to the nearest integer, ties to the even one (d > 0)
RoundDiv(n, d) ==
    LET q == n \div d
        r == n % d
    IN  IF 2 * r < d THEN q
        ELSE IF 2 * r > d THEN q + 1
        ELSE IF q % 2 = 0 THEN q ELSE q + 1

\* the spacing of the floating-point numbers at v >= 0: 1 below 2^MantissaBits
\* (the subnormal range), doubling with each binade above
RECURSIVE Ulp(_)
Ulp(v) == IF v < 2 ^ MantissaBits THEN 1 ELSE 2 * Ulp(v \div 2)

\* n / d rounded to the nearest floating-point number, ties to even
RoundFloat(n, d) ==
    LET u == Ulp(n \div d) IN u * RoundDiv(n, d * u)

----------------------------------------------------------------------------
(* Field State Machine: NebulaScene.animate *)

\* lerpSpeed in hundredths: 0.05, 0.03, 0.02
FistSpeed == 5
OpenSpeed == 3
RestoreSpeed == 2

\* variant: the open-hand branch forgets to reset the black-hole target
BlendTargets_NoReset(hand) ==
    IF hand.isActive
    THEN IF hand.isClosed
         THEN [blackHole |-> Scale, explosion |-> 0, lerpSpeed |-> FistSpeed]
         ELSE [blackHole |-> targetBlackHole, explosion |-> Scale,
               lerpSpeed |-> OpenSpeed]
    ELSE [blackHole |-> 0, explosion |-> 0, lerpSpeed |-> RestoreSpeed]

\* variant: with no hand the targets are left where they were
BlendTargets_NoRestore(hand) ==
    IF hand.isActive
    THEN IF hand.isClosed
         THEN [blackHole |-> Scale, explosion |-> 0, lerpSpeed |-> FistSpeed]
         ELSE [blackHole |-> 0, explosion |-> Scale, lerpSpeed |-> OpenSpeed]
    ELSE [blackHole |-> targetBlackHole, explosion |-> targetExplosion,
          lerpSpeed |-> RestoreSpeed]

\* variant: the fist branch forgets to reset the explosion target
BlendTargets_KeepExplosion(hand) ==
    IF hand.isActive
    THEN IF hand.isClosed
         THEN [blackHole |-> Scale, explosion |-> targetExplosion,
               lerpSpeed |-> FistSpeed]
         ELSE [blackHole |-> 0, explosion |-> Scale, lerpSpeed |-> OpenSpeed]
    ELSE [blackHole |-> 0, explosion |-> 0, lerpSpeed |-> RestoreSpeed]

\* src/NebulaScene.tsx 372-389: the targets and the speed chosen from the hand
BlendTargets(hand) ==
    IF hand.isActive
    THEN IF hand.isClosed
         THEN [blackHole |-> Scale, explosion |-> 0, lerpSpeed |-> FistSpeed]
         ELSE [blackHole |-> 0, explosion |-> Scale, lerpSpeed |-> OpenSpeed]
    ELSE [blackHole |-> 0, explosion |-> 0, lerpSpeed |-> RestoreSpeed]

\* variant: the step moves away from the target
Lerp_Away(current, target, lerpSpeed) ==
    RoundFloat(100 * current + (current - target) * lerpSpeed, 100)

\* variant: the speed is scaled by a frame factor of 30 and passes 1
Lerp_Overshoot(current, target, lerpSpeed) ==
    RoundFloat(100 * current + (target - current) * lerpSpeed * 30, 100)

\* variant: the speed is a tenth of the one chosen
Lerp_Slow(current, target, lerpSpeed) ==
    RoundFloat(1000 * current + (target - current) * lerpSpeed, 1000)

\* src/NebulaScene.tsx 391-392: current += (target - current) * lerpSpeed
Lerp(current, target, lerpSpeed) ==
    RoundFloat(100 * current + (target - current) * lerpSpeed, 100)

\* src/NebulaScene.tsx 364-392: one run of the animate callback (the blend
\* state; the shader uniforms it then copies the result to are not state of
\* this model)
animate ==
    LET hand == handData
        t == BlendTargets(hand)
        e == Lerp(currentExplosion, t.explosion, t.lerpSpeed)
        h == Lerp(currentBlackHole, t.blackHole, t.lerpSpeed)
    IN  /\ targetBlackHole' = t.blackHole
        /\ targetExplosion' = t.explosion
        /\ currentExplosion' = e
        /\ currentBlackHole' = h
        /\ frames' = Min(frames + 1, MaxFrames)
        /\ activeFrames' = IF hand.isActive
                           THEN Min(activeFrames + 1, MaxFrames)
                           ELSE 0
        /\ parity' = 1 - parity
        /\ sustainedFist' = (sustainedFist /\ hand.isActive /\ hand.isClosed)
        /\ UNCHANGED gestureVars
        /\ UNCHANGED samplerVars
        /\ UNCHANGED appVars

\* src/NebulaScene.tsx 364-415: animate as one of the first MaxFrames frames
\* of the render loop
firstFrames ==
    /\ frames < MaxFrames
    /\ animate

----------------------------------------------------------------------------
(* Gesture Classifier: GestureHandler.predictWebcam *)

\* a landmark: x and y in 1/100 of the normalized image, z the raw depth
Landmark(x, y, z) == [x |-> x, y |-> y, z |-> z]

\* squared distance of two landmarks in the normalized (x, y) plane, in 1/10000
Dist2(p, q) == (p.x - q.x) * (p.x - q.x) + (p.y - q.y) * (p.y - q.y)

\* src/unnamed/part_000 99-100
tips == <<8, 12, 16, 20>>
mcps == <<5, 9, 13, 17>>

\* variant: <= for <
IsPinching_Inclusive(landmarks) ==
    LET indexTip == landmarks[8]
        thumbTip == landmarks[4]
        dx == indexTip.x - thumbTip.x
        dy == indexTip.y - thumbTip.y
    IN  dx * dx + dy * dy <= 25

\* src/unnamed/part_000 91-94: pinchDist = sqrt(dx*dx + dy*dy) < 0.05, compared
\* by the squares: dx*dx + dy*dy < 0.0025
IsPinching(landmarks) ==
    LET indexTip == landmarks[8]
        thumbTip == landmarks[4]
        dx == indexTip.x - thumbTip.x
        dy == indexTip.y - thumbTip.y
    IN  dx * dx + dy * dy < 25

\* src/unnamed/part_000 104-111: tipDist < mcpDist * 1.1, compared by the
\* squares: 100 * tipDist^2 < 121 * mcpDist^2
FingerCurled(landmarks, i) ==
    LET wrist == landmarks[0]
        tip == landmarks[tips[i]]
        mcp == landmarks[mcps[i]]
    IN  100 * Dist2(tip, wrist) < 121 * Dist2(mcp, wrist)

\* src/unnamed/part_000 102-114: the loop counting the curled fingers
FingersClosedCount(landmarks) ==
    Cardinality({i \in 1..4 : FingerCurled(landmarks, i)})

\* variant: two curled fingers are enough
IsClosed_Two(landmarks) == FingersClosedCount(landmarks) >= 2

\* src/unnamed/part_000 115
IsClosed(landmarks) == FingersClosedCount(landmarks) >= 3

\* variant: a frame without a hand resets the whole signal
Classify_Reset(res, prev) ==
    IF Len(res) > 0
    THEN LET landmarks == res[1]
             palmX == landmarks[9].x
             palmY == landmarks[9].y
         IN  [isActive |-> TRUE,
              x |-> -(palmX * 2 - 100),
              y |-> -(palmY * 2 - 100),
              z |-> landmarks[9].z,
              isPinching |-> IsPinching(landmarks),
              isClosed |-> IsClosed(landmarks)]
    ELSE [isActive |-> FALSE, x |-> 0, y |-> 0, z |-> 0,
          isPinching |-> FALSE, isClosed |-> FALSE]

\* src/unnamed/part_000 83-135: the interaction signal written for one
\* detection result (a sequence of hands, each a function 0..20 -> Landmark)
Classify(res, prev) ==
    IF Len(res) > 0
    THEN LET landmarks == res[1]
             palmX == landmarks[9].x
             palmY == landmarks[9].y
         IN  [isActive |-> TRUE,
              x |-> -(palmX * 2 - 100),
              y |-> -(palmY * 2 - 100),
              z |-> landmarks[9].z,
              isPinching |-> IsPinching(landmarks),
              isClosed |-> IsClosed(landmarks)]
    ELSE [prev EXCEPT !.isActive = FALSE]

\* src/unnamed/part_000 45-61: enableCam up to its await: without
\* getUserMedia it sets the error, otherwise a getUserMedia call is outstanding
EnableCam ==
    IF supported
    THEN /\ camPending' = camPending + 1
         /\ error' = error
    ELSE /\ camPending' = camPending
         /\ error' = "unsupported"

\* src/unnamed/part_000 18-40: an init() call resolves with the hand landmarker
\* loaded; setIsLoaded(true) re-runs the effect of 42-71 when isLoaded changes
init ==
    /\ initPending > 0
    /\ initPending' = initPending - 1
    /\ handLandmarker' = "loaded"
    /\ isLoaded' = TRUE
    /\ IF ~isLoaded /\ enabled
       THEN EnableCam
       ELSE UNCHANGED <<camPending, error>>
    /\ UNCHANGED <<enabled, supported, enables, video, srcObject, listening,
                   loadedDue, requested, refPending, streams>>
    /\ UNCHANGED <<classifierVars, videoTime, inferences>>
    /\ UNCHANGED fieldVars
    /\ UNCHANGED samplerVars
    /\ UNCHANGED appVars

\* src/unnamed/part_000 34-37: an init() call fails
initFails ==
    /\ initPending > 0
    /\ initPending' = initPending - 1
    /\ error' = "load"
    /\ UNCHANGED <<enabled, isLoaded, supported, camPending, enables, video,
                   srcObject, listening, loadedDue, requested, refPending,
                   streams>>
    /\ UNCHANGED <<classifierVars, handLandmarker, videoTime, inferences>>
    /\ UNCHANGED fieldVars
    /\ UNCHANGED samplerVars
    /\ UNCHANGED appVars

\* src/unnamed/part_000 51-55: a getUserMedia call resolves with a new stream
\* whose track runs; if there is a video element the stream becomes its source
\* (the element will fire loadeddata for it) and the predictWebcam of the
\* render that called enableCam is added as one more loadeddata listener
getUserMedia ==
    /\ camPending > 0
    /\ camPending' = camPending - 1
    /\ streams' = Append(streams, "live")
    /\ IF video # "null"
       THEN /\ srcObject' = Len(streams) + 1
            /\ listening' = listening + 1
            /\ loadedDue' = TRUE
       ELSE UNCHANGED <<srcObject, listening, loadedDue>>
    /\ UNCHANGED <<enabled, isLoaded, error, supported, initPending, enables,
                   video, requested, refPending>>
    /\ UNCHANGED <<classifierVars, handLandmarker, videoTime, inferences>>
    /\ UNCHANGED fieldVars
    /\ UNCHANGED samplerVars
    /\ UNCHANGED appVars

\* src/unnamed/part_000 56-58: a getUserMedia call is rejected
getUserMediaFails ==
    /\ camPending > 0
    /\ camPending' = camPending - 1
    /\ error' = "denied"
    /\ UNCHANGED <<enabled, isLoaded, supported, initPending, enables, video,
                   srcObject, listening, loadedDue, requested, refPending,
                   streams>>
    /\ UNCHANGED <<classifierVars, handLandmarker, videoTime, inferences>>
    /\ UNCHANGED fieldVars
    /\ UNCHANGED samplerVars
    /\ UNCHANGED appVars

\* src/unnamed/part_000 63-70: the cleanup of the camera effect, given the
\* value of videoRef.current it reads: the tracks of the video's stream stop
\* only if there is a video element with a stream
StopTracks(videoCurrent) ==
    IF videoCurrent # "null" /\ srcObject # 0
    THEN [streams EXCEPT ![srcObject] = "ended"]
    ELSE streams

\* src/types.ts 205, src/unnamed/part_000 18-71, 140-151: the gesture button.
\* Switching off: the component renders null, the video element goes (with its
\* listeners) and videoRef.current is null when the cleanup of the camera
\* effect then runs (the effect had a cleanup only if it ran with isLoaded);
\* the cleanup cancels the animation frame request that requestRef names.
\* Switching on: a new video element is rendered, init() is called again and,
\* if isLoaded, enableCam.
setGestureEnabled ==
    IF enabled
    THEN /\ enabled' = FALSE
         /\ video' = "null"
         /\ srcObject' = 0
         /\ listening' = 0
         /\ loadedDue' = FALSE
         /\ streams' = IF isLoaded THEN StopTracks(video') ELSE streams
         /\ requested' = IF isLoaded /\ refPending
                         THEN requested - 1 ELSE requested
         /\ refPending' = IF isLoaded THEN FALSE ELSE refPending
         /\ UNCHANGED <<isLoaded, error, supported, initPending, camPending,
                        enables>>
         /\ UNCHANGED <<classifierVars, handLandmarker, videoTime, inferences>>
         /\ UNCHANGED fieldVars
         /\ UNCHANGED samplerVars
         /\ UNCHANGED appVars
    ELSE /\ enables < MaxEnables
         /\ enables' = enables + 1
         /\ enabled' = TRUE
         /\ video' = "mounted"
         /\ srcObject' = 0
         /\ videoTime' = 0
         /\ inferences' = 0
         /\ initPending' = initPending + 1
         /\ IF isLoaded
            THEN EnableCam
            ELSE UNCHANGED <<camPending, error>>
         /\ UNCHANGED <<isLoaded, supported, listening, loadedDue, requested,
                        refPending, streams>>
         /\ UNCHANGED <<classifierVars, handLandmarker>>
         /\ UNCHANGED fieldVars
         /\ UNCHANGED samplerVars
         /\ UNCHANGED appVars

\* the camera presents the next video frame: video.currentTime advances, up
\* to the timestamp last
videoFrame(last) ==
    /\ video # "null"
    /\ srcObject # 0
    /\ streams[srcObject] = "live"
    /\ videoTime < last
    /\ videoTime' = videoTime + 1
    /\ inferences' = 0
    /\ UNCHANGED <<classifierVars, cameraVars, handLandmarker>>
    /\ UNCHANGED fieldVars
    /\ UNCHANGED samplerVars
    /\ UNCHANGED appVars

\* variant: the timestamp of the processed frame is not recorded
Inference_NoStamp(Detections) ==
    IF lastVideoTime # videoTime
    THEN \E res \in Detections :
            /\ lastVideoTime' = lastVideoTime
            /\ results' = res
            /\ handData' = Classify(res, handData)
            /\ inferences' = Min(inferences + 1, 2)
    ELSE UNCHANGED <<classifierVars, inferences>>

\* src/unnamed/part_000 79-136: on a timestamp not processed yet, predictWebcam
\* records the timestamp, calls detectForVideo, which answers with any
\* detection result of Detections, and writes the interaction signal
Inference(Detections) ==
    IF lastVideoTime # videoTime
    THEN \E res \in Detections :
            /\ lastVideoTime' = videoTime
            /\ results' = res
            /\ handData' = Classify(res, handData)
            /\ inferences' = Min(inferences + 1, 2)
    ELSE UNCHANGED <<classifierVars, inferences>>

\* src/unnamed/part_000 54, 74-138: the video element fires loadeddata for its
\* new source and every listener runs predictWebcam: the first run makes the
\* inference, the later ones find the timestamp processed, and each requests
\* an animation frame, the last one's handle staying in requestRef
loadeddata(Detections) ==
    /\ video # "null"
    /\ loadedDue
    /\ loadedDue' = FALSE
    /\ IF handLandmarker = "null"
       THEN UNCHANGED <<classifierVars, inferences, requested, refPending>>
       ELSE /\ Inference(Detections)
            /\ requested' = requested + listening
            /\ refPending' = TRUE
    /\ UNCHANGED <<enabled, isLoaded, error, supported, initPending, camPending,
                   enables, video, srcObject, listening, streams>>
    /\ UNCHANGED <<handLandmarker, videoTime>>
    /\ UNCHANGED fieldVars
    /\ UNCHANGED samplerVars
    /\ UNCHANGED appVars

\* src/unnamed/part_000 74-138: one run of predictWebcam as the animation frame
\* callback it requested (137): the callback run is the one requestRef names or
\* another outstanding one; without a landmarker or a video element it returns
\* (75), otherwise it requests the next frame and requestRef names that request
predictWebcam(Detections) ==
    /\ requested > 0
    /\ IF handLandmarker = "null" \/ video = "null"
       THEN /\ requested' = requested - 1
            /\ \E named \in BOOLEAN :
                  /\ named => refPending
                  /\ ~named => requested > (IF refPending THEN 1 ELSE 0)
                  /\ refPending' = (refPending /\ ~named)
            /\ UNCHANGED <<classifierVars, inferences>>
       ELSE /\ requested' = requested
            /\ refPending' = TRUE
            /\ Inference(Detections)
    /\ UNCHANGED <<enabled, isLoaded, error, supported, initPending, camPending,
                   enables, video, srcObject, listening, loadedDue, streams>>
    /\ UNCHANGED <<handLandmarker, videoTime>>
    /\ UNCHANGED fieldVars
    /\ UNCHANGED samplerVars
    /\ UNCHANGED appVars

----------------------------------------------------------------------------
(* Image-to-Particle Sampler: processImage *)

\* An image is [width, height, data]: data is the RGBA pixel buffer getImageData
\* returns, one [r, g, b, a] record per pixel in row-major order.  Images of the
\* model are smaller than maxSize (2048), so the canvas has the image's size and
\* drawImage copies the pixels unscaled (src/imageProcessing.ts 41-58).
Pixel(r, g, b, a) == [r |-> r, g |-> g, b |-> b, a |-> a]
PixelAt(image, x, y) == image.data[y * image.width + x + 1]

\* src/imageProcessing.ts 87: 1000 * (0.299 r + 0.587 g + 0.114 b)
Brightness(px) == 299 * px.r + 587 * px.g + 114 * px.b

\* variant: a pixel exactly at the threshold is dropped
PassesThreshold_Strict(px, s) == ~(Brightness(px) <= 1000 * s.threshold \/ px.a < 50)

\* src/imageProcessing.ts 90: the pixel is kept (not `continue`d)
PassesThreshold(px, s) == ~(Brightness(px) < 1000 * s.threshold \/ px.a < 50)

\* variant: 1.0 - normalizedBrightness * depthRange, the parentheses lost
DepthZ_Precedence(px, s) ==
    LET brightness == Brightness(px)
        z == CASE s.depthMode = "InverseBrightness" ->
                    255000 - brightness * s.depthRange
               [] s.depthMode = "Layered" ->
                    IF brightness < 64000 THEN 0
                    ELSE IF brightness < 128000 THEN s.depthRange * 33 * 2550
                    ELSE IF brightness < 192000 THEN s.depthRange * 66 * 2550
                    ELSE s.depthRange * 255000
               [] OTHER -> brightness * s.depthRange
    IN  IF s.depthInvert THEN -z ELSE z

\* src/imageProcessing.ts 93-131: z in 1/255000 (normalizedBrightness is
\* Brightness / 255000).  The modes of the model are Brightness,
\* InverseBrightness and Layered; any other value takes the default branch.
DepthZ(px, s) ==
    LET brightness == Brightness(px)
        z == CASE s.depthMode = "InverseBrightness" ->
                    (255000 - brightness) * s.depthRange
               [] s.depthMode = "Layered" ->
                    IF brightness < 64000 THEN 0
                    ELSE IF brightness < 128000 THEN s.depthRange * 33 * 2550
                    ELSE IF brightness < 192000 THEN s.depthRange * 66 * 2550
                    ELSE s.depthRange * 255000
               [] OTHER -> brightness * s.depthRange
    IN  IF s.depthInvert THEN -z ELSE z

\* src/imageProcessing.ts 61
Step(s) == Max(1, s.density)

\* variant: the cap is not applied to the estimate
EstimatedCount_NoCap(image, s) ==
    LET step == Step(s)
        n == image.width * image.height
    IN  (n + step * step - 1) \div (step * step)

\* src/imageProcessing.ts 62-63: Math.ceil(width * height / (step * step)),
\* capped by maxParticles when that is positive
EstimatedCount(image, s) ==
    LET step == Step(s)
        n == image.width * image.height
        est == (n + step * step - 1) \div (step * step)
    IN  IF s.maxParticles > 0 THEN Min(est, s.maxParticles) ELSE est

\* a typed array of n zeros, and a write that is dropped when out of range
ZeroArray(n) == [i \in 1..n |-> 0]
Store(arr, i, v) == IF i + 1 \in DOMAIN arr THEN [arr EXCEPT ![i + 1] = v] ELSE arr

\* src/imageProcessing.ts 141-143: the color stored, in 1/255
ParticleColor(px) == <<px.r, px.g, px.b>>

\* variant: the raw brightness is stored, not the normalized one
ParticleSize_Raw(px) == 255 * Brightness(px)

\* src/imageProcessing.ts 94, 146: the size stored is normalizedBrightness,
\* brightness / 255, in 1/255000
ParticleSize(px) == Brightness(px)

\* src/imageProcessing.ts 78-148: the body of the inner loop for pixel (x, y);
\* st is [positions, colors, sizes, particleIndex].  positions are kept as
\* (2 posX, 2 posY, 255000 z), colors in 1/255, sizes in 1/255000.
VisitPixel(image, s, est, st, x, y) ==
    LET px == PixelAt(image, x, y)
        k == st.particleIndex
    IN  IF k >= est THEN st
        ELSE IF ~PassesThreshold(px, s) THEN st
        ELSE [positions |->
                 Store(Store(Store(st.positions, k * 3, 2 * x - image.width),
                             k * 3 + 1, -(2 * y - image.height)),
                       k * 3 + 2, DepthZ(px, s)),
              colors |->
                 Store(Store(Store(st.colors, k * 3, ParticleColor(px)[1]),
                             k * 3 + 1, ParticleColor(px)[2]),
                       k * 3 + 2, ParticleColor(px)[3]),
              sizes |-> Store(st.sizes, k, ParticleSize(px)),
              particleIndex |-> k + 1]

\* src/imageProcessing.ts 76-150: the two loops, from pixel (x, y) on
RECURSIVE ScanFrom(_, _, _, _, _, _)
ScanFrom(image, s, est, st, x, y) ==
    IF y >= image.height THEN st
    ELSE IF x >= image.width THEN ScanFrom(image, s, est, st, 0, y + Step(s))
    ELSE ScanFrom(image, s, est, VisitPixel(image, s, est, st, x, y), x + Step(s), y)

\* src/imageProcessing.ts 35-158
processImage(image, s) ==
    LET estimatedCount == EstimatedCount(image, s)
        st == ScanFrom(image, s, estimatedCount,
                       [positions |-> ZeroArray(estimatedCount * 3),
                        colors |-> ZeroArray(estimatedCount * 3),
                        sizes |-> ZeroArray(estimatedCount),
                        particleIndex |-> 0], 0, 0)
    IN  [positions |-> SubSeq(st.positions, 1, st.particleIndex * 3),
         colors |-> SubSeq(st.colors, 1, st.particleIndex * 3),
         sizes |-> SubSeq(st.sizes, 1, st.particleIndex),
         count |-> st.particleIndex]

\* src/types.ts 103: the sampler runs on the loaded image with the settings
sample ==
    /\ processed = <<>>
    /\ processed' = <<processImage(img, settings)>>
    /\ UNCHANGED <<img, settings>>
    /\ UNCHANGED fieldVars
    /\ UNCHANGED gestureVars
    /\ UNCHANGED appVars

----------------------------------------------------------------------------
(* Image loads of App and the particle buffer of NebulaScene *)

\* the image a source decodes to
ImageOf(src) ==
    LET white == [r |-> 255, g |-> 255, b |-> 255, a |-> 255]
        black == [r |-> 0, g |-> 0, b |-> 0, a |-> 255]
    IN  IF src = "sample"
        THEN [width |-> 3, height |-> 1, data |-> <<white, black, white>>]
        ELSE [width |-> 1, height |-> 1, data |-> <<white>>]

\* src/types.ts 87-98: handleImageProcess up to its await: the processing flag
\* is set and the image starts to decode
handleImageProcess(src) ==
    /\ scene = "running"
    /\ Len(loads) < MaxLoads
    /\ isProcessing' = TRUE
    /\ loads' = Append(loads, [src |-> src, stage |-> "decoding", before |-> data])
    /\ UNCHANGED <<data, timers, scene, points, effectLog>>
    /\ UNCHANGED fieldVars
    /\ UNCHANGED gestureVars
    /\ UNCHANGED samplerVars

\* src/types.ts 95-107: img.onload resolves the promise and the 50 ms timer is set
imageLoaded(i) ==
    /\ scene = "running"
    /\ i <= Len(loads)
    /\ loads[i].stage = "decoding"
    /\ loads' = [loads EXCEPT ![i].stage = "timer"]
    /\ timers' = Append(timers, i)
    /\ UNCHANGED <<data, isProcessing, scene, points, effectLog>>
    /\ UNCHANGED fieldVars
    /\ UNCHANGED gestureVars
    /\ UNCHANGED samplerVars

\* variant: the catch block also clears the displayed data
imageFails_Clear(i) ==
    /\ scene = "running"
    /\ i <= Len(loads)
    /\ loads[i].stage = "decoding"
    /\ loads' = [loads EXCEPT ![i].stage = "failed"]
    /\ isProcessing' = FALSE
    /\ data' = <<>>
    /\ UNCHANGED <<timers, scene, points, effectLog>>
    /\ UNCHANGED fieldVars
    /\ UNCHANGED gestureVars
    /\ UNCHANGED samplerVars

\* src/types.ts 97, 109-112: img.onerror rejects the promise; the catch block
\* clears the processing flag
imageFails(i) ==
    /\ scene = "running"
    /\ i <= Len(loads)
    /\ loads[i].stage = "decoding"
    /\ loads' = [loads EXCEPT ![i].stage = "failed"]
    /\ isProcessing' = FALSE
    /\ UNCHANGED <<data, timers, scene, points, effectLog>>
    /\ UNCHANGED fieldVars
    /\ UNCHANGED gestureVars
    /\ UNCHANGED samplerVars

\* src/NebulaScene.tsx 426-472: the data effect on new data: the points of the
\* old buffer leave the scene and their geometry is disposed (429-432), then the
\* geometry, the material and the points of the new buffer are made (434-467)
\* and added to the scene (468-470)
DataEffectLog ==
    (IF points # <<>> THEN <<"remove", "dispose">> ELSE <<>>)
        \o <<"geometry", "material", "points", "add">>

\* src/types.ts 102-107, src/imageProcessing.ts 53-54, src/NebulaScene.tsx
\* 426-472: the timer callback of a load.  processImage throws if the canvas
\* has no 2d context: the exception leaves the callback and nothing else is
\* done.  Otherwise the buffer becomes App's data, the processing flag is
\* cleared, and NebulaScene's data effect installs the buffer in the scene.
timer(i) ==
    /\ scene = "running"
    /\ timers # <<>>
    /\ i = Head(timers)
    /\ timers' = Tail(timers)
    /\ \E ctx \in BOOLEAN :
          IF ctx
          THEN LET processedData == processImage(ImageOf(loads[i].src), settings)
               IN  /\ data' = <<processedData>>
                   /\ isProcessing' = FALSE
                   /\ loads' = [loads EXCEPT ![i].stage = "done"]
                   /\ points' = <<processedData>>
                   /\ effectLog' = DataEffectLog
          ELSE /\ loads' = [loads EXCEPT ![i].stage = "threw"]
               /\ UNCHANGED <<data, isProcessing, points, effectLog>>
    /\ UNCHANGED scene
    /\ UNCHANGED fieldVars
    /\ UNCHANGED gestureVars
    /\ UNCHANGED samplerVars

\* src/NebulaScene.tsx 418-423: the cleanup of the mount effect: the renderer
\* is disposed and the scene cleared; the animation frame that animate
\* requested (365) is not cancelled
unmount ==
    /\ scene = "running"
    /\ scene' = "disposed"
    /\ UNCHANGED <<data, isProcessing, loads, timers, points, effectLog>>
    /\ UNCHANGED fieldVars
    /\ UNCHANGED gestureVars
    /\ UNCHANGED samplerVars

----------------------------------------------------------------------------
(* Inputs *)

\* largest width and height of the generated images
MaxW == 3
MaxH == 3
\* the small particle caps tried, 1..MaxCap, besides the default cap
MaxCap == 2

Black == Pixel(0, 0, 0, 255)
White == Pixel(255, 255, 255, 255)
\* brightness exactly 10, and a bright pixel just too transparent
Dim == Pixel(10, 10, 10, 255)
Ghost == Pixel(200, 100, 50, 49)
Orange == Pixel(200, 100, 50, 50)
Palette == {Black, White, Dim, Ghost, Orange}

\* pixel i of data (from 1) is of column (i - 1) % w and row (i - 1) \div w
Uniform(w, h, a) ==
    [width |-> w, height |-> h, data |-> [i \in 1..(w * h) |-> a]]
Checker(w, h, a, b) ==
    [width |-> w, height |-> h,
     data |-> [i \in 1..(w * h) |->
                 IF (((i - 1) % w) + ((i - 1) \div w)) % 2 = 0 THEN a ELSE b]]
Single(w, h, a, b, k) ==
    [width |-> w, height |-> h,
     data |-> [i \in 1..(w * h) |-> IF i - 1 = k THEN b ELSE a]]

\* the 4x4 checkerboard of full-white and full-black pixels
Checkerboard == Checker(4, 4, White, Black)

Images ==
    {Checkerboard} \cup
    UNION {{Uniform(w, h, a) : a \in Palette}
           \cup {Checker(w, h, a, b) : a \in Palette, b \in Palette}
           \cup {Single(w, h, a, b, k) : a \in {Black, White}, b \in Palette,
                                         k \in 0..(w * h - 1)}
           : w \in 1..MaxW, h \in 1..MaxH}

\* src/unnamed/part_000 163-172 (DEFAULT_SETTINGS), the fields processImage reads
DefaultSettings ==
    [density |-> 2, threshold |-> 30, maxParticles |-> 200000,
     depthMode |-> "Brightness", depthRange |-> 400, depthInvert |-> FALSE]

SettingsSet ==
    {DefaultSettings} \cup
    [density : {1, 2}, threshold : {10, 128},
     maxParticles : (1..MaxCap) \cup {200000},
     depthMode : {"Brightness", "InverseBrightness", "Layered"},
     depthRange : {100}, depthInvert : BOOLEAN]

NoImage == [width |-> 0, height |-> 0, data |-> <<>>]

\* the sources of App's image loads: the first sample image (src/types.ts 84)
\* and an uploaded file
LoadSources == {"sample", "file"}

\* hands: the wrist at (50, 90), the MCP joints 5, 13, 17 at distance 0.10 of
\* it, the palm (MCP 9) at one of two places at distance 0.10; a tip is curled
\* (distance 0.10), on the 1.1 margin (distance 0.11) or stretched (0.40)
Wrist == Landmark(50, 90, 0)
TipPlaces == {Landmark(50, 80, 0), Landmark(50, 79, 0), Landmark(50, 50, 0)}
PalmPlaces == {Landmark(50, 80, 0), Landmark(58, 84, -5)}
\* the thumb tip relative to the index tip, <<dx, dy, dz>>: at 0.03, 0.0447
\* (and far behind it in depth), 0.05 and 0.10 in the (x, y) plane
ThumbOffsets == {<<3, 0, 0>>, <<4, 2, -30>>, <<3, 4, 0>>, <<10, 0, 0>>}

Hand(t8, t12, t16, t20, palm, off) ==
    [i \in 0..20 |->
        CASE i = 0 -> Wrist
          [] i = 4 -> Landmark(t8.x + off[1], t8.y + off[2], off[3])
          [] i = 5 -> Landmark(44, 82, 0)
          [] i = 8 -> t8
          [] i = 9 -> palm
          [] i = 12 -> t12
          [] i = 13 -> Landmark(56, 82, 0)
          [] i = 16 -> t16
          [] i = 17 -> Landmark(60, 90, 0)
          [] i = 20 -> t20
          [] OTHER -> Landmark(50, 70, 0)]

Hands ==
    {Hand(t8, t12, t16, t20, palm, off) :
        t8 \in TipPlaces, t12 \in TipPlaces, t16 \in TipPlaces, t20 \in TipPlaces,
        palm \in PalmPlaces, off \in ThumbOffsets}

\* what detectForVideo can answer: no hand, or one hand (numHands: 1)
Detections == {<<>>} \cup {<<h>> : h \in Hands}

OpenHand ==
    Hand(Landmark(50, 50, 0), Landmark(50, 50, 0), Landmark(50, 50, 0),
         Landmark(50, 50, 0), Landmark(50, 80, 0), <<10, 0, 0>>)
Fist ==
    Hand(Landmark(50, 80, 0), Landmark(50, 80, 0), Landmark(50, 80, 0),
         Landmark(50, 80, 0), Landmark(50, 80, 0), <<3, 0, 0>>)
FieldDetections == {<<>>, <<OpenHand>>, <<Fist>>}

----------------------------------------------------------------------------
(* Specifications *)

\* src/types.ts 65-80, src/NebulaScene.tsx 305-309, src/unnamed/part_000 11-16
Init ==
    /\ currentExplosion = 0
    /\ targetExplosion = 0
    /\ currentBlackHole = 0
    /\ targetBlackHole = 0
    /\ handData = [isActive |-> FALSE, x |-> 0, y |-> 0, z |-> 0,
                   isPinching |-> FALSE, isClosed |-> FALSE]
    /\ handLandmarker = "null"
    /\ lastVideoTime = -1
    /\ videoTime = 0
    /\ enabled = TRUE
    /\ isLoaded = FALSE
    /\ error = "none"
    /\ supported \in BOOLEAN
    /\ initPending = 1
    /\ camPending = 0
    /\ enables = 1
    /\ video = "mounted"
    /\ srcObject = 0
    /\ listening = 0
    /\ loadedDue = FALSE
    /\ requested = 0
    /\ refPending = FALSE
    /\ streams = <<>>
    /\ inferences = 0
    /\ results = <<>>
    /\ frames = 0
    /\ activeFrames = 0
    /\ parity = 0
    /\ sustainedFist = TRUE
    /\ img = NoImage
    /\ settings = DefaultSettings
    /\ processed = <<>>
    /\ data = <<>>
    /\ isProcessing = TRUE
    /\ loads = <<[src |-> "sample", stage |-> "decoding", before |-> <<>>]>>
    /\ timers = <<>>
    /\ scene = "running"
    /\ points = <<>>
    /\ effectLog = <<>>

\* the render loop with the classifier feeding it
Next ==
    \/ init
    \/ getUserMedia
    \/ videoFrame(MaxVideoTime)
    \/ loadeddata(FieldDetections)
    \/ predictWebcam(FieldDetections)
    \/ animate

Spec == Init /\ [][Next]_vars

\* the render loop never stops: animate asks for the next animation frame
\* before anything else (src/NebulaScene.tsx 365). animate is always enabled
\* and is the one action that flips parity, so that WF_vars(animate) is the
\* same condition as parity changing forever.
SpecFair == Spec /\ []<>(parity = 0) /\ []<>(parity = 1)

\* the classifier on every hand of the model
NextClassifier ==
    \/ init
    \/ getUserMedia
    \/ videoFrame(MaxVideoTime)
    \/ loadeddata(Detections)
    \/ predictWebcam(Detections)

SpecClassifier == Init /\ [][NextClassifier]_vars

\* the first MaxFrames frames of the render loop with the classifier feeding
\* it, the camera presenting one video frame more than under Spec
NextRepulsion ==
    \/ init
    \/ getUserMedia
    \/ videoFrame(MaxVideoTime + 1)
    \/ loadeddata(FieldDetections)
    \/ predictWebcam(FieldDetections)
    \/ firstFrames

SpecRepulsion == Init /\ [][NextRepulsion]_vars

\* the gesture handler with its button, its failures and the camera
NextGesture ==
    \/ setGestureEnabled
    \/ init
    \/ initFails
    \/ getUserMedia
    \/ getUserMediaFails
    \/ videoFrame(MaxVideoTime)
    \/ loadeddata(FieldDetections)
    \/ predictWebcam(FieldDetections)

SpecGesture == Init /\ [][NextGesture]_vars

\* App's image loads, the scene's buffer and the render loop
NextApp ==
    \/ \E src \in LoadSources : handleImageProcess(src)
    \/ \E i \in 1..MaxLoads : imageLoaded(i)
    \/ \E i \in 1..MaxLoads : imageFails(i)
    \/ \E i \in 1..MaxLoads : timer(i)
    \/ unmount
    \/ animate

SpecApp == Init /\ [][NextApp]_vars

\* the sampler on every image and configuration of the model
InitSampler ==
    /\ currentExplosion = 0
    /\ targetExplosion = 0
    /\ currentBlackHole = 0
    /\ targetBlackHole = 0
    /\ handData = [isActive |-> FALSE, x |-> 0, y |-> 0, z |-> 0,
                   isPinching |-> FALSE, isClosed |-> FALSE]
    /\ handLandmarker = "null"
    /\ lastVideoTime = -1
    /\ videoTime = 0
    /\ enabled = TRUE
    /\ isLoaded = FALSE
    /\ error = "none"
    /\ supported = TRUE
    /\ initPending = 1
    /\ camPending = 0
    /\ enables = 1
    /\ video = "mounted"
    /\ srcObject = 0
    /\ listening = 0
    /\ loadedDue = FALSE
    /\ requested = 0
    /\ refPending = FALSE
    /\ streams = <<>>
    /\ inferences = 0
    /\ results = <<>>
    /\ frames = 0
    /\ activeFrames = 0
    /\ parity = 0
    /\ sustainedFist = TRUE
    /\ img \in Images
    /\ settings \in SettingsSet
    /\ processed = <<>>
    /\ data = <<>>
    /\ isProcessing = TRUE
    /\ loads = <<[src |-> "sample", stage |-> "decoding", before |-> <<>>]>>
    /\ timers = <<>>
    /\ scene = "running"
    /\ points = <<>>
    /\ effectLog = <<>>

NextSampler == sample

SpecSampler == InitSampler /\ [][NextSampler]_vars

----------------------------------------------------------------------------
(* Properties of the Field State Machine, under Spec *)

\* the new value lies between the old value and the target
Between(new, old, target) ==
    \/ (old <= new /\ new <= target)
    \/ (target <= new /\ new <= old)

\* C1: explosionTarget and blackHoleTarget are never both 1; a closed-fist
\* frame sets (blackHoleTarget, explosionTarget) = (1, 0), an active open-hand
\* frame (0, 1) and an inactive frame (0, 0).
C1_TargetsExclusive ==
    /\ [](~(targetExplosion = Scale /\ targetBlackHole = Scale))
    /\ [][animate =>
            /\ (handData.isActive /\ handData.isClosed) =>
                   (targetBlackHole' = Scale /\ targetExplosion' = 0)
            /\ (handData.isActive /\ ~handData.isClosed) =>
                   (targetBlackHole' = 0 /\ targetExplosion' = Scale)
            /\ ~handData.isActive =>
                   (targetBlackHole' = 0 /\ targetExplosion' = 0)]_vars

\* C1 witness: a closed-fist frame has run after an open-hand frame
C1_Witness ==
    /\ targetBlackHole = Scale
    /\ targetExplosion = 0
    /\ currentExplosion > 0

\* C2 as stated: from (0, 0) under a sustained closed-fist signal,
\* blackHoleCurrent is non-decreasing, strictly increasing while below 1, never
\* above 1, and explosionCurrent stays 0.
C2_Original ==
    [][(animate /\ sustainedFist') =>
          /\ currentBlackHole' >= currentBlackHole
          /\ (currentBlackHole < Scale => currentBlackHole' > currentBlackHole)
          /\ currentBlackHole' <= Scale
          /\ currentExplosion' = 0]_vars

\* C2 as amended: from (0, 0) under a sustained closed-fist signal,
\* blackHoleCurrent is non-decreasing, strictly increasing while the step
\* 0.05 * (1 - blackHoleCurrent) is more than half a unit of the arithmetic's
\* precision, never above 1, and explosionCurrent stays 0.
C2_FistMonotone ==
    [][(animate /\ sustainedFist') =>
          /\ currentBlackHole' >= currentBlackHole
          /\ (2 * FistSpeed * (Scale - currentBlackHole) > 100 * Ulp(currentBlackHole) =>
                 currentBlackHole' > currentBlackHole)
          /\ currentBlackHole' <= Scale
          /\ currentExplosion' = 0]_vars

\* C2 witness: the fist has been held from the first frame on and
\* blackHoleCurrent has come to rest below 1
C2_Witness ==
    /\ sustainedFist
    /\ frames = MaxFrames
    /\ currentBlackHole < Scale
    /\ Lerp(currentBlackHole, Scale, FistSpeed) = currentBlackHole

\* C3: after every frame both blend factors lie in [0, 1], and each lies
\* between its value before the frame and its target.
C3_NoOvershoot ==
    [][animate =>
          /\ currentExplosion' \in 0..Scale
          /\ currentBlackHole' \in 0..Scale
          /\ Between(currentExplosion', currentExplosion, targetExplosion')
          /\ Between(currentBlackHole', currentBlackHole, targetBlackHole')]_vars

\* C3 witness: both factors are under way, one rising and one falling
C3_Witness ==
    /\ currentExplosion > 0
    /\ currentBlackHole > 0
    /\ targetBlackHole = Scale
    /\ frames = MaxFrames

\* C20 as stated: explosionCurrent + blackHoleCurrent <= 1 in every reachable
\* state, for any sequence of inactive, open-hand and closed-fist frames.
C20_Original == currentExplosion + currentBlackHole <= Scale

\* C20 as amended: the two roundings of a frame can carry the sum above 1 by
\* accumulated rounding error only: explosionCurrent + blackHoleCurrent never
\* exceeds 1 by more than 34 units in the last place of the numbers below 1
\* (a frame's two roundings add at most one such unit and the frame takes the
\* fraction lerpSpeed >= 0.03 of the excess back).
C20_SumBounded ==
    (2 ^ MantissaBits) * (currentExplosion + currentBlackHole)
        <= (2 ^ MantissaBits) * Scale + 34 * Scale

\* C20 witness: the sum is above 1
C20_Witness ==
    /\ currentExplosion + currentBlackHole > Scale
    /\ currentExplosion > 0
    /\ currentBlackHole > 0

\* explosionCurrent < 0.001, blackHoleCurrent < 0.001: the shader's tests
\* uExplosion > 0.001 and uBlackHole > 0.001 (src/NebulaScene.tsx 107, 144) fail
BelowShaderThreshold(current) == 1000 * current < Scale

\* the signal read by animate says there is no hand
HandInactive == ~handData.isActive

\* both targets are 0 and both blend factors are below the shader's threshold
Restored ==
    /\ targetExplosion = 0
    /\ targetBlackHole = 0
    /\ BelowShaderThreshold(currentExplosion)
    /\ BelowShaderThreshold(currentBlackHole)

\* C19: a frame that reads an inactive signal sets both targets to 0 and
\* raises neither blend factor: it takes 0.02 of each (up to the rounding of the
\* result) and strictly lowers each factor that is not yet below 0.001; and
\* with the render loop running, a signal that is inactive from some frame on
\* leads to both targets at 0 and both factors below 0.001 for good.
C19_Restore ==
    /\ [][(animate /\ ~handData.isActive) =>
             /\ targetExplosion' = 0
             /\ targetBlackHole' = 0
             /\ currentExplosion' <= currentExplosion
             /\ currentBlackHole' <= currentBlackHole
             /\ ~BelowShaderThreshold(currentExplosion)
                    => currentExplosion' < currentExplosion
             /\ ~BelowShaderThreshold(currentBlackHole)
                    => currentBlackHole' < currentBlackHole
             /\ 200 * currentExplosion' >= 196 * currentExplosion - 100 * Ulp(currentExplosion)
             /\ 200 * currentExplosion' <= 196 * currentExplosion + 100 * Ulp(currentExplosion)
             /\ 200 * currentBlackHole' >= 196 * currentBlackHole - 100 * Ulp(currentBlackHole)
             /\ 200 * currentBlackHole' <= 196 * currentBlackHole + 100 * Ulp(currentBlackHole)]_vars
    /\ (<>[]HandInactive) => <>[]Restored

\* C19 witness: the hand is gone and blackHoleCurrent has decayed from above
\* 0.001 to below it, without reaching 0
C19_Witness ==
    /\ ~handData.isActive
    /\ targetBlackHole = 0
    /\ currentBlackHole > 0
    /\ BelowShaderThreshold(currentBlackHole)
    /\ frames = MaxFrames

----------------------------------------------------------------------------
(* Properties of the sampler, under SpecSampler *)

\* the pixels the stride grid visits, and those of them that pass the tests
Visited(image, step) ==
    {<<x, y>> \in (0..(image.width - 1)) \X (0..(image.height - 1)) :
        x % step = 0 /\ y % step = 0}
Bright(px, threshold) ==
    299 * px.r + 587 * px.g + 114 * px.b >= 1000 * threshold /\ px.a >= 50
PassingVisited(image, s) ==
    {c \in Visited(image, Max(1, s.density)) :
        Bright(PixelAt(image, c[1], c[2]), s.threshold)}

\* the passing pixels of the whole image in row-major order, as indices of data
PassingRowMajor(image, s) ==
    SelectSeq([i \in 1..(image.width * image.height) |-> i],
              LAMBDA i : Bright(image.data[i], s.threshold))

\* C4: count <= maxParticles, positions.length = 3 count, colors.length =
\* 3 count and sizes.length = count.
C4_CountAndLengths ==
    processed # <<>> =>
        LET d == processed[1]
        IN  /\ d.count <= settings.maxParticles
            /\ Len(d.positions) = 3 * d.count
            /\ Len(d.colors) = 3 * d.count
            /\ Len(d.sizes) = d.count

\* C4 witness: the cap cut the sampling short
C4_Witness ==
    /\ processed # <<>>
    /\ processed[1].count = settings.maxParticles
    /\ Cardinality(PassingVisited(img, settings)) > settings.maxParticles

\* C5: a visited pixel that passes the tests is refused only once maxParticles
\* particles are accepted: when the passing visited pixels are at most
\* maxParticles, count is their number.
C5_AllPassingEmitted ==
    (processed # <<>>
       /\ Cardinality(PassingVisited(img, settings)) <= settings.maxParticles) =>
        processed[1].count = Cardinality(PassingVisited(img, settings))

\* C6: with stride 1 and the cap not reached, the particles are the pixels with
\* brightness >= threshold and alpha >= 50, one each, in row-major order; the
\* 4x4 checkerboard with threshold 10 yields its 8 white pixels.
C6_ExactlyTheBrightPixels ==
    (processed # <<>> /\ settings.density = 1
       /\ Len(PassingRowMajor(img, settings)) <= settings.maxParticles) =>
        LET d == processed[1]
            want == PassingRowMajor(img, settings)
        IN  /\ d.count = Len(want)
            /\ \A k \in 1..Len(want) :
                  LET x == (want[k] - 1) % img.width
                      y == (want[k] - 1) \div img.width
                      px == img.data[want[k]]
                  IN  /\ d.positions[3 * k - 2] = 2 * x - img.width
                      /\ d.positions[3 * k - 1] = img.height - 2 * y
                      /\ d.colors[3 * k - 2] = px.r
                      /\ d.colors[3 * k - 1] = px.g
                      /\ d.colors[3 * k] = px.b
            /\ (\A i \in DOMAIN img.data : ~Bright(img.data[i], settings.threshold))
                  => d.count = 0
            /\ (img = Checkerboard /\ settings.threshold = 10) =>
                  /\ d.count = 8
                  /\ \A k \in 1..8 : img.data[want[k]] = White

\* C6 witness: the checkerboard sampled with stride 1 and threshold 10
C6_Witness ==
    /\ processed # <<>>
    /\ img = Checkerboard
    /\ settings.density = 1
    /\ settings.threshold = 10
    /\ settings.maxParticles >= 8
    /\ processed[1].count = 8

\* the image has one color throughout
IsUniform(image) == \A i \in DOMAIN image.data : image.data[i] = image.data[1]

\* C7: on an image of one color with alpha >= 50 and brightness >= threshold,
\* every particle has the color (R/255, G/255, B/255) and the sizeWeight
\* (0.299 R + 0.587 G + 0.114 B) / 255, which lies in [0, 1].
C7_UniformImage ==
    (processed # <<>> /\ IsUniform(img) /\ Bright(img.data[1], settings.threshold)) =>
        LET d == processed[1]
            px == img.data[1]
            nb == 299 * px.r + 587 * px.g + 114 * px.b
        IN  /\ d.count >= 1
            /\ \A k \in 1..d.count :
                  /\ d.colors[3 * k - 2] = px.r
                  /\ d.colors[3 * k - 1] = px.g
                  /\ d.colors[3 * k] = px.b
                  /\ d.sizes[k] = nb
                  /\ d.sizes[k] >= 0
                  /\ d.sizes[k] <= 255000

\* C7 witness: several particles of a uniform image of a color that is not gray
C7_Witness ==
    /\ processed # <<>>
    /\ IsUniform(img)
    /\ img.data[1] = Orange
    /\ processed[1].count >= 2

\* C8: with depthInvert off, z in InverseBrightness is depthRange minus z in
\* Brightness, for the same pixel and the same depthRange.
C8_DepthComplement ==
    (processed # <<>> /\ settings.depthMode = "InverseBrightness"
       /\ ~settings.depthInvert) =>
        LET d == processed[1]
            b == processImage(img, [settings EXCEPT !.depthMode = "Brightness"])
        IN  /\ b.count = d.count
            /\ \A k \in 1..d.count :
                  d.positions[3 * k] = 255000 * settings.depthRange - b.positions[3 * k]

\* C8 witness: a particle of middling brightness sampled in InverseBrightness
C8_Witness ==
    /\ processed # <<>>
    /\ settings.depthMode = "InverseBrightness"
    /\ ~settings.depthInvert
    /\ processed[1].count >= 1
    /\ processed[1].positions[3] > 0
    /\ processed[1].positions[3] < 255000 * settings.depthRange

----------------------------------------------------------------------------
(* Properties of the classifier, under SpecClassifier *)

\* the number of the four fingers whose tip is nearer the wrist than 1.1 times
\* its MCP joint: (tip, MCP) = (8, 5), (12, 9), (16, 13), (20, 17)
CurledFingers(lm) ==
    Cardinality({f \in {<<8, 5>>, <<12, 9>>, <<16, 13>>, <<20, 17>>} :
        100 * Dist2(lm[f[1]], lm[0]) < 121 * Dist2(lm[f[2]], lm[0])})

\* C9: on a frame with a hand, isPinching holds iff the distance of the index
\* tip (8) and the thumb tip (4) is below 0.05: true at 0.03, false at 0.10.
C9_PinchIffNear ==
    Len(results) > 0 =>
        LET lm == results[1]
            d2 == Dist2(lm[8], lm[4])
        IN  /\ handData.isPinching <=> (d2 < 25)
            /\ d2 = 9 => handData.isPinching
            /\ d2 = 100 => ~handData.isPinching

\* C9 witness: the tips are exactly 0.05 apart and the hand is not pinching
C9_Witness ==
    /\ Len(results) > 0
    /\ Dist2(results[1][8], results[1][4]) = 25
    /\ ~handData.isPinching
    /\ handData.isActive

\* C10: on a frame with a hand, isClosed holds iff at least 3 of the 4
\* non-thumb fingers are curled; with exactly 2 curled it is false.
C10_ClosedIffThreeCurled ==
    Len(results) > 0 =>
        LET n == CurledFingers(results[1])
        IN  /\ handData.isClosed <=> (n >= 3)
            /\ n = 2 => ~handData.isClosed

\* C10 witness: exactly two fingers are curled, one of the others on the margin
C10_Witness ==
    /\ Len(results) > 0
    /\ CurledFingers(results[1]) = 2
    /\ results[1][8] = Landmark(50, 79, 0)
    /\ ~handData.isClosed
    /\ handData.isActive

\* C11: a frame on which the classifier runs inference and detects no hand
\* sets isActive to false and leaves x, y, z, isPinching and isClosed as they
\* were before the frame.
C11_NoHandKeepsFields ==
    [][(lastVideoTime' # lastVideoTime /\ results' = <<>>) =>
          /\ handData'.isActive = FALSE
          /\ handData'.x = handData.x
          /\ handData'.y = handData.y
          /\ handData'.z = handData.z
          /\ handData'.isPinching = handData.isPinching
          /\ handData'.isClosed = handData.isClosed]_vars

\* C11 witness: the last frame showed no hand and the signal still carries the
\* position, pinch and fist of the hand seen before
C11_Witness ==
    /\ lastVideoTime = MaxVideoTime
    /\ results = <<>>
    /\ ~handData.isActive
    /\ handData.x # 0
    /\ handData.z # 0
    /\ handData.isPinching
    /\ handData.isClosed

\* C12: detectForVideo runs at most once on a video frame, and while the video
\* shows the timestamp processed last no step (a run of predictWebcam above
\* all) makes an inference or changes the interaction signal.
C12_OncePerFrame ==
    /\ [](inferences <= 1)
    /\ [][(lastVideoTime = videoTime /\ videoTime' = videoTime) =>
            /\ inferences' = inferences
            /\ results' = results
            /\ handData' = handData]_vars

\* C12 witness: the second video frame has been processed once and the next
\* run of predictWebcam, which is requested, finds its timestamp processed
C12_Witness ==
    /\ videoTime = MaxVideoTime
    /\ lastVideoTime = videoTime
    /\ inferences = 1
    /\ requested = 1

----------------------------------------------------------------------------
(* Properties of the gesture handler's life cycle, under SpecGesture *)

\* C13: while gesture tracking is stopped (from the state right after the stop
\* until it is enabled again) the interaction signal has isActive = false.
C13_StopSignalsInactive == ~enabled => ~handData.isActive

\* C14: once tracking is disabled and no init() or getUserMedia call is
\* outstanding, no camera stream obtained by the handler has a running track.
C14_CameraReleased ==
    (~enabled /\ initPending = 0 /\ camPending = 0) =>
        \A i \in 1..Len(streams) : streams[i] # "live"

\* C15: from a failure of the gesture subsystem on (model load, camera
\* unsupported, permission denied) the interaction signal has isActive = false.
C15_FailureKeepsInactive == error # "none" => ~handData.isActive

----------------------------------------------------------------------------
(* Properties of the image loads and of the scene, under SpecApp *)

\* load i fails in this step: its image does not decode or processImage throws
LoadFails(i) ==
    /\ i <= Len(loads)
    /\ loads[i].stage \in {"decoding", "timer"}
    /\ loads'[i].stage \in {"failed", "threw"}

\* a whole output of the sampler: count particles with 3 positions, 3 colours
\* and 1 size each
Complete(buffer) ==
    /\ Len(buffer.positions) = 3 * buffer.count
    /\ Len(buffer.colors) = 3 * buffer.count
    /\ Len(buffer.sizes) = buffer.count
    /\ \E src \in LoadSources : buffer = processImage(ImageOf(src), settings)

\* C16 as stated: after a load fails, App's data is the buffer that was
\* displayed (or absent) when the load was requested.
C16_Original ==
    [][\A i \in 1..MaxLoads : LoadFails(i) => data' = loads[i].before]_vars

\* C16 as amended: a failing load does not change App's data: after the
\* failure the data is what it was just before it, absent or a complete buffer.
C16_FailureKeepsData ==
    /\ [][\A i \in 1..MaxLoads : LoadFails(i) => data' = data]_vars
    /\ [](data = <<>> \/ Complete(data[1]))

\* C16 witness: a load has failed after another load, requested later and
\* finished earlier, replaced the buffer displayed at its request
C16_Witness ==
    \E i \in 1..Len(loads) :
        /\ loads[i].stage \in {"failed", "threw"}
        /\ data # <<>>
        /\ data # loads[i].before

\* C17: after the cleanup of the scene the animate callback never runs again.
C17_LoopHalts == [][scene = "disposed" => ~animate]_vars

\* the position of an operation in the log of the data effect (0: not in it)
LogIndex(op) ==
    IF \E k \in 1..Len(effectLog) : effectLog[k] = op
    THEN CHOOSE k \in 1..Len(effectLog) : effectLog[k] = op
    ELSE 0

\* C18: when a buffer replaces the displayed one, the old buffer's geometry is
\* disposed only after the points of the new buffer are constructed.
C18_ReleaseAfterConstruct ==
    LogIndex("dispose") > 0 => LogIndex("points") < LogIndex("dispose")

----------------------------------------------------------------------------
(* The repulsion gate of the vertex shader *)

\* src/NebulaScene.tsx 201 with 394-411: the gate the shader evaluates with the
\* uniforms the last frame wrote, uHandActive > 0.5 && uBlackHole < 0.1 &&
\* uExplosion < 0.1 (activeFrames >= 1 iff the last frame read an active hand)
Gate ==
    /\ activeFrames >= 1
    /\ 10 * currentBlackHole < Scale
    /\ 10 * currentExplosion < Scale

----------------------------------------------------------------------------
(* Overlapping image loads *)

\* the buffer a successful load i hands to setData (src/types.ts 103-104)
BufferOf(i) == <<processImage(ImageOf(loads[i].src), settings)>>

\* C22: when loads requested one after the other, each before any earlier one
\* had finished, have all succeeded, the displayed buffer is the one sampled
\* for the load requested last, whatever the order of the decode and timer
\* callbacks.
C22_LastRequestWins ==
    LET n == Len(loads)
    IN  (/\ n >= 2
         /\ \A k \in 1..n : loads[k].stage = "done"
         /\ loads[n].before = <<>>)
        => data = BufferOf(n)

\* a load is in flight while its image decodes or its timer is pending
InFlight(i) == loads[i].stage \in {"decoding", "timer"}

\* C23: isProcessing is true exactly while some load is in flight: false once
\* every load has ended (done, failed to decode, or thrown in the timer
\* callback), and not false while a load is still in flight.
C23_FlagTracksLoads ==
    isProcessing <=> (\E i \in 1..Len(loads) : InFlight(i))

----------------------------------------------------------------------------
(* The classifier loop, under SpecGesture *)

\* C24: at most one predictWebcam animation-frame callback is outstanding at
\* any time, and none is while tracking is disabled.
C24_OneLoop ==
    /\ requested <= 1
    /\ ~enabled => requested = 0

====
